---- MODULE Spec2Model ----
(***************************************************************************)
(* Model of src/vpn_client.py: the OpenVPN connection supervisor           *)
(* (VPNClient).  The GLib main loop runs one callback at a time; the log   *)
(* reader, the status poller and the disconnect handshake are threads      *)
(* that interleave with it and reach it through GLib.idle_add.             *)
(*                                                                         *)
(* Text is a sequence of atoms.  An atom is a TLA+ string standing for a   *)
(* fixed run of characters that holds no separator: " " is one blank,      *)
(* "." a dot, "," a comma, "\n" a line break, "0".."9" one digit.          *)
(***************************************************************************)
EXTENDS Naturals, Integers, Sequences, FiniteSets, Bags, TLC

None == <<>>

(* ---------------------------- bounds ----------------------------------- *)
MaxSessions == 2
MaxLines == 2
MaxTokens == 2

(* ------------------------- text primitives ------------------------------ *)
Digits == <<"0", "1", "2", "3", "4", "5", "6", "7", "8", "9">>

IsDigitAtom(a) == \E i \in 1..10 : Digits[i] = a

DigitVal(a) == (CHOOSE i \in 1..10 : Digits[i] = a) - 1

\* str.lower() on one atom
LowerAtom(a) ==
  CASE a = "IFCONFIG" -> "ifconfig"
    [] a = "TUN" -> "tun"
    [] a = "Scramble" -> "scramble"
    [] a = "ERROR" -> "error"
    [] a = "Options" -> "options"
    [] OTHER -> a

Lower(s) == [i \in 1..Len(s) |-> LowerAtom(s[i])]

\* pat in s
Contains(s, pat) ==
  \E i \in 1..(Len(s) - Len(pat) + 1) : SubSeq(s, i, i + Len(pat) - 1) = pat

\* s.startswith(pat)
StartsWith(s, pat) == Len(s) >= Len(pat) /\ SubSeq(s, 1, Len(pat)) = pat

\* s.split(sep): the pieces between separators, empty pieces kept
RECURSIVE SplitOn(_, _)
SplitOn(s, sep) ==
  IF \A i \in 1..Len(s) : s[i] # sep
  THEN <<s>>
  ELSE LET i == CHOOSE k \in 1..Len(s) :
                  s[k] = sep /\ \A j \in 1..(k - 1) : s[j] # sep
       IN <<SubSeq(s, 1, i - 1)>> \o SplitOn(SubSeq(s, i + 1, Len(s)), sep)

NonEmpty(p) == p # <<>>

\* s.split(): split on blanks, empty pieces dropped
SplitBlank(s) == SelectSeq(SplitOn(s, " "), NonEmpty)

\* s.splitlines()
SplitLines(s) == SelectSeq(SplitOn(s, "\n"), NonEmpty)

\* s.strip()
RECURSIVE Strip(_)
Strip(s) ==
  IF s = <<>> THEN s
  ELSE IF Head(s) = " " THEN Strip(Tail(s))
  ELSE IF s[Len(s)] = " " THEN Strip(SubSeq(s, 1, Len(s) - 1))
  ELSE s

\* s.isdigit()
IsDigit(s) == s # <<>> /\ \A i \in 1..Len(s) : IsDigitAtom(s[i])

RECURSIVE DecVal(_)
DecVal(s) == IF s = <<>> THEN 0 ELSE 10 * DecVal(SubSeq(s, 1, Len(s) - 1)) + DigitVal(s[Len(s)])

\* int(s) accepts blanks around an optionally signed run of digits
IntBody(s) == IF s # <<>> /\ Head(s) \in {"-", "+"} THEN Tail(s) ELSE s

IntOk(s) == IsDigit(IntBody(Strip(s)))

IntVal(s) ==
  LET t == Strip(s)
  IN IF Head(t) = "-" THEN 0 - DecVal(Tail(t)) ELSE DecVal(IntBody(t))

(* ------------------------------ _is_ip ---------------------------------- *)
IsIpField(p) == IsDigit(p) /\ 0 <= DecVal(p) /\ DecVal(p) <= 255

IsIp(s) ==
  LET parts == SplitOn(s, ".")
  IN Len(parts) = 4 /\ \A i \in 1..Len(parts) : IsIpField(parts[i])

(* ------------- _read_openvpn_output: capture of the address ------------- *)
\* the value of self.assigned_ip after the "Try to capture assigned IP" block
\* has run on `line`, `old` being its value before
RECURSIVE CaptureFrom(_, _, _)
CaptureFrom(parts, i, old) ==
  IF i > Len(parts) THEN old
  ELSE IF Lower(parts[i]) = <<"ifconfig">> /\ i + 1 <= Len(parts) /\ IsIp(parts[i + 1])
       THEN CaptureFrom(parts, i + 1, parts[i + 1])
       ELSE CaptureFrom(parts, i + 1, old)

CaptureIp(line, old) ==
  IF Contains(Lower(line), <<"ifconfig">>) /\ Contains(Lower(line), <<"tun">>)
  THEN CaptureFrom(SplitBlank(line), 1, old)
  ELSE old

(* ------------- _read_openvpn_output: classification --------------------- *)
InitMarker == <<"Initialization", " ", "Sequence", " ", "Completed">>
ExitingMarker == <<"process", " ", "exiting">>
OptionsErrorMarker == <<"Options", " ", "error">>

ClassifySwapped(line) ==
  IF Contains(line, <<"SIGTERM">>) \/ Contains(line, ExitingMarker) THEN "exit"
  ELSE IF Contains(line, InitMarker) THEN "connected"
  ELSE IF Contains(line, <<"AUTH_FAILED">>) THEN "auth"
  ELSE "none"

\* the branch of the if/elif chain the line takes
Classify(line) ==
  IF Contains(line, InitMarker) THEN "connected"
  ELSE IF Contains(line, <<"SIGTERM">>) \/ Contains(line, ExitingMarker) THEN "exit"
  ELSE IF Contains(line, <<"AUTH_FAILED">>) THEN "auth"
  ELSE IF Contains(Lower(line), <<"scramble">>) /\ Contains(Lower(line), <<"error">>)
       THEN "scramble"
  ELSE IF Contains(line, OptionsErrorMarker) /\ Contains(line, <<"scramble">>)
       THEN "scramble"
  ELSE "none"

(* ----------------------------- _parse_status ---------------------------- *)
ReadPrefix == <<"TCP/UDP read bytes", ",">>
WritePrefix == <<"TCP/UDP write bytes", ",">>

\* int(line.split(",")[1]) raises IndexError or ValueError
FieldFails(line) ==
  LET f == SplitOn(line, ",") IN Len(f) < 2 \/ ~IntOk(f[2])

FieldVal(line) == IntVal(SplitOn(line, ",")[2])

\* <<bytes_in, bytes_out>> after the loop has run over lines[i..]
RECURSIVE ParseLines(_, _, _)
ParseLines(lines, i, c) ==
  IF i > Len(lines) THEN c
  ELSE LET l == lines[i]
       IN IF StartsWith(l, ReadPrefix)
          THEN ParseLines(lines, i + 1, IF FieldFails(l) THEN c ELSE <<FieldVal(l), c[2]>>)
          ELSE IF StartsWith(l, WritePrefix)
          THEN ParseLines(lines, i + 1, IF FieldFails(l) THEN c ELSE <<c[1], FieldVal(l)>>)
          ELSE ParseLines(lines, i + 1, c)

RECURSIVE ParseLinesReset(_, _, _)
ParseLinesReset(lines, i, c) ==
  IF i > Len(lines) THEN c
  ELSE LET l == lines[i]
       IN IF StartsWith(l, ReadPrefix)
          THEN ParseLinesReset(lines, i + 1, <<IF FieldFails(l) THEN 0 ELSE FieldVal(l), c[2]>>)
          ELSE IF StartsWith(l, WritePrefix)
          THEN ParseLinesReset(lines, i + 1, <<c[1], IF FieldFails(l) THEN 0 ELSE FieldVal(l)>>)
          ELSE ParseLinesReset(lines, i + 1, c)

ParseStatusReset(data, c) == ParseLinesReset(SplitLines(data), 1, c)

ParseStatus(data, c) == ParseLines(SplitLines(data), 1, c)

(* =============================== state ================================== *)
VARIABLES
  state,         \* self.state
  ovpn_process,  \* self.ovpn_process: 0 is None, otherwise the index of the process in procs
  connect_time,  \* self.connect_time: "None" or "set" (a time.time() value)
  assigned_ip,   \* self.assigned_ip: None or the captured text
  bytes_in,      \* self.bytes_in
  bytes_out,     \* self.bytes_out
  stop_monitor,  \* self._stop_monitor (threading.Event)
  configs,       \* len(self.configs), fixed at construction
  idle,          \* callbacks queued with GLib.idle_add, in order
  procs,         \* the child processes spawned so far
  nlines,        \* lines read from the pipes so far
  nraw,          \* idle_add(self._log, line) calls made for those lines so far
  readers,       \* the _read_openvpn_output threads, one per spawn
  pollers,       \* the live _poll_status threads (a bag)
  handshakes,    \* the live _send_mgmt_signal threads (a bag)
  emit,          \* what the latest step did: the states handed to _set_state, the
                 \* messages logged, the threads and commands started
  arg            \* the text handed to a parsing routine run on its own

vars == <<state, ovpn_process, connect_time, assigned_ip, bytes_in, bytes_out,
          stop_monitor, configs, idle, procs, nlines, nraw, readers, pollers, handshakes, emit, arg>>

fields == <<state, ovpn_process, connect_time, assigned_ip, bytes_in, bytes_out, stop_monitor>>

threads == <<readers, pollers, handshakes>>

NoEmit == [trans |-> <<>>, logs |-> <<>>, started |-> <<>>]

Emit(t, l, s) == [trans |-> t, logs |-> l, started |-> s]

Cb(c, a) == [cb |-> c, arg |-> a, src |-> 0]

\* a queued _on_process_exit; it carries no argument in the code, the model
\* notes beside it the process whose reader queued it
ExitCb(p) == [cb |-> "on_process_exit", arg |-> "", src |-> p]

\* VPNClient.__init__
InitOther ==
  /\ state = "Disconnected"
  /\ ovpn_process = 0
  /\ connect_time = "None"
  /\ assigned_ip = None
  /\ stop_monitor = FALSE
  /\ idle = <<>>
  /\ procs = <<>>
  /\ nlines = 0
  /\ nraw = 0
  /\ readers = <<>>
  /\ pollers = EmptyBag
  /\ handshakes = EmptyBag
  /\ emit = NoEmit

Init ==
  /\ InitOther
  /\ bytes_in = 0
  /\ bytes_out = 0
  /\ configs \in {0, 1}
  /\ arg = None

(* ------------------------ text the environment supplies ----------------- *)
\* what the user may have typed into an entry row
EntryTexts == {<<" ">>, <<"u", " ">>}

\* lines the child process may print
LInit == <<"Sat", " ">> \o InitMarker
LInitSigterm == InitMarker \o <<" ", "SIGTERM">>
LSigterm == <<"SIGTERM", "[hard,]", " ", "received,", " ">> \o ExitingMarker
LAuth == <<"AUTH:", " ", "Received", " ", "control", " ", "message:", " ", "AUTH_FAILED">>
LAuthSigterm == <<"SIGTERM", "[soft,", "AUTH_FAILED", "]", " ", "received">>
LScramble == <<"Options", " ", "error", " ", "scramble">>
LIfconfig == <<"ifconfig", " ", "1", "0", ".", "8", ".", "0", ".", "5", " ", "tun", "0">>
LPlain == <<"UDP", " ", "link", " ", "local">>

ProcLines == {LInit, LInitSigterm, LSigterm, LAuth, LAuthSigterm, LScramble, LIfconfig,
              LPlain}

\* replies of the management interface to "status"
RStatus == <<"TCP/UDP read bytes", ",", "7", "\n", "TCP/UDP write bytes", ",", "9", "\n">>
RMalformed == <<"TCP/UDP read bytes", ",", "a", "b", "c", "\n">>

StatusReplies == {RStatus, RMalformed}

(* ========================= main-loop callbacks =========================== *)
\* _set_state assigns self.state; the widgets it refreshes are not modelled.
\* Each callback lists the states it hands to _set_state in emit.trans.

NewReader == [pc |-> "start", proc |-> 0, ip |-> None]

NewPoller == [pc |-> "sleep", sess |-> Len(procs)]

NewHandshake == [pc |-> "signal"]

\* on_connect_clicked, the guards of lines 239-246 passed, no configuration to select
ConnectNoConfig ==
  /\ emit' = Emit(<<>>, <<"IndexError">>, <<>>)
  /\ UNCHANGED <<fields, configs, idle, procs, nlines, nraw, threads, arg>>

ConnectNotFoundStuck ==
  /\ state' = "Connecting"
  /\ stop_monitor' = FALSE
  /\ emit' = Emit(<<"Connecting">>, <<"connecting", "not_found">>, <<>>)
  /\ UNCHANGED <<ovpn_process, connect_time, assigned_ip, bytes_in, bytes_out,
                 configs, idle, procs, nlines, nraw, threads, arg>>

\* on_connect_clicked, subprocess.Popen raises FileNotFoundError
ConnectNotFound ==
  /\ state' = "Disconnected"
  /\ stop_monitor' = FALSE
  /\ emit' = Emit(<<"Connecting", "Disconnected">>,
                  <<"connecting", "not_found">>, <<>>)
  /\ UNCHANGED <<ovpn_process, connect_time, assigned_ip, bytes_in, bytes_out,
                 configs, idle, procs, nlines, nraw, threads, arg>>

\* on_connect_clicked, subprocess.Popen returns a process
ConnectSpawn ==
  /\ Len(procs) < MaxSessions
  /\ state' = "Connecting"
  /\ stop_monitor' = FALSE
  /\ procs' = Append(procs, [alive |-> TRUE])
  /\ ovpn_process' = Len(procs) + 1
  /\ readers' = Append(readers, NewReader)
  /\ emit' = Emit(<<"Connecting">>, <<"connecting">>, <<"reader">>)
  /\ UNCHANGED <<connect_time, assigned_ip, bytes_in, bytes_out, configs, idle,
                 nlines, nraw, pollers, handshakes, arg>>

ConnectRejected(l) ==
  /\ emit' = Emit(<<>>, l, <<>>)
  /\ UNCHANGED <<fields, configs, idle, procs, nlines, nraw, threads, arg>>

on_connect_clicked(user, passwd, launch) ==
  IF state # "Disconnected" THEN ConnectRejected(<<>>)
  ELSE IF Strip(user) = <<>> \/ Strip(passwd) = <<>> THEN ConnectRejected(<<"enter_credentials">>)
  ELSE IF configs = 0 THEN ConnectNoConfig
  ELSE IF launch = "FileNotFoundError" THEN ConnectNotFound
  ELSE ConnectSpawn

\* on_disconnect_clicked past its guard
DisconnectAccepted ==
  /\ state' = "Disconnecting"
  /\ handshakes' = handshakes (+) SetToBag({NewHandshake})
  /\ emit' = Emit(<<"Disconnecting">>, <<"disconnecting">>, <<"handshake">>)
  /\ UNCHANGED <<ovpn_process, connect_time, assigned_ip, bytes_in, bytes_out,
                 stop_monitor, configs, idle, procs, nlines, nraw, readers, pollers, arg>>

DisconnectNoGuard == DisconnectAccepted

on_disconnect_clicked ==
  IF state \notin {"Connecting", "Connected"}
  THEN /\ emit' = Emit(<<>>, <<>>, <<>>)
       /\ UNCHANGED <<fields, configs, idle, procs, nlines, nraw, threads, arg>>
  ELSE DisconnectAccepted

\* _on_connected, run from the idle queue
on_connected ==
  /\ connect_time' = "set"
  /\ state' = "Connected"
  /\ pollers' = pollers (+) SetToBag({NewPoller})
  /\ emit' = Emit(<<"Connected">>, <<"established">>, <<"poller">>)
  /\ UNCHANGED <<ovpn_process, assigned_ip, bytes_in, bytes_out, stop_monitor,
                 configs, procs, nlines, nraw, readers, handshakes, arg>>

\* _on_process_exit past its guard
ProcessExitTeardown ==
  /\ ovpn_process' = 0
  /\ connect_time' = "None"
  /\ assigned_ip' = None
  /\ bytes_in' = 0
  /\ bytes_out' = 0
  /\ stop_monitor' = TRUE
  /\ state' = "Disconnected"
  /\ emit' = Emit(<<"Disconnected">>, <<"disconnected">>, <<>>)
  /\ UNCHANGED <<configs, procs, nlines, nraw, threads, arg>>

ProcessExitNoGuard == ProcessExitTeardown

\* _on_process_exit, run from the idle queue
on_process_exit ==
  IF state = "Disconnected"
  THEN /\ emit' = Emit(<<>>, <<>>, <<>>)
       /\ UNCHANGED <<fields, configs, procs, nlines, nraw, threads, arg>>
  ELSE ProcessExitTeardown

\* _log, run from the idle queue, touches widgets only
WidgetCallback(c) ==
  /\ emit' = Emit(<<>>, <<c.arg>>, <<>>)
  /\ UNCHANGED <<fields, configs, procs, nlines, nraw, threads, arg>>

\* the main loop runs the oldest queued callback
RunIdle ==
  /\ idle # <<>>
  /\ idle' = Tail(idle)
  /\ LET c == Head(idle)
     IN CASE c.cb = "on_connected" -> on_connected
          [] c.cb = "on_process_exit" -> on_process_exit
          [] OTHER -> WidgetCallback(c)

\* what subprocess.Popen may do
Launches == {"ok", "FileNotFoundError"}

ClickConnect ==
  \E user \in EntryTexts, passwd \in EntryTexts, launch \in Launches :
    on_connect_clicked(user, passwd, launch)

ClickDisconnect == on_disconnect_clicked

(* ============================ child process ============================== *)
\* the child terminates (SIGTERM honoured, kill, crash, failed authentication)
ProcExit(p) ==
  /\ procs[p].alive
  /\ procs' = [procs EXCEPT ![p].alive = FALSE]
  /\ emit' = NoEmit
  /\ UNCHANGED <<fields, configs, idle, nlines, nraw, threads, arg>>

(* ==================== _read_openvpn_output (thread) ====================== *)
\* proc = self.ovpn_process; return when it is None
ReaderStart(r) ==
  /\ readers[r].pc = "start"
  /\ readers' = [readers EXCEPT ![r].proc = ovpn_process,
                                ![r].pc = IF ovpn_process = 0 THEN "done" ELSE "read"]
  /\ emit' = NoEmit
  /\ UNCHANGED <<fields, configs, idle, procs, nlines, nraw, pollers, handshakes, arg>>

\* the callbacks one line makes the reader queue, in order.  The idle queue of
\* the model holds the callbacks that drive the supervisor and the report of a
\* failed authentication; idle_add(self._log, line) is counted in nraw, and the
\* other idle_add(self._log, ...) and idle_add(self._update_info) calls only
\* repaint widgets and are not queued.
LineCallbacks(line, proc) ==
  CASE Classify(line) = "connected" -> <<Cb("on_connected", "")>>
    [] Classify(line) = "exit" -> <<ExitCb(proc)>>
    [] Classify(line) = "auth" -> <<Cb("log", "auth"), ExitCb(proc)>>
    [] OTHER -> <<>>

\* what the loop body does with each line the child may print
LineEffect ==
  [l \in ProcLines |->
     [cbs |-> [p \in 1..MaxSessions |-> LineCallbacks(l, p)], ip |-> CaptureIp(l, None)]]

\* one pass of the for loop up to the capture of the address: the next line of
\* the pipe is read, the flag tested, the callbacks queued
ReaderLine(r, line) ==
  LET me == readers[r]
      cbs == LineEffect[line].cbs[me.proc]
      got == LineEffect[line].ip
  IN /\ me.pc = "read"
     /\ nlines < MaxLines
     /\ nlines' = nlines + 1
     /\ IF stop_monitor
        THEN /\ readers' = [readers EXCEPT ![r].pc = "wait"]
             /\ idle' = idle
             /\ nraw' = nraw
        ELSE /\ nraw' = nraw + 1
             /\ idle' = idle \o cbs
             /\ readers' = [readers EXCEPT
                  ![r].pc = IF got = None THEN "read" ELSE "setip",
                  ![r].ip = got]
     /\ emit' = NoEmit
     /\ UNCHANGED <<fields, configs, procs, pollers, handshakes, arg>>

\* self.assigned_ip = ip_candidate, written from the reader thread
ReaderSetIp(r) ==
  /\ readers[r].pc = "setip"
  /\ assigned_ip' = readers[r].ip
  /\ readers' = [readers EXCEPT ![r].pc = "read", ![r].ip = None]
  /\ emit' = NoEmit
  /\ UNCHANGED <<state, ovpn_process, connect_time, bytes_in, bytes_out, stop_monitor,
                 configs, idle, procs, nlines, nraw, pollers, handshakes, arg>>

\* the pipe is at end of file or the loop was left; proc.wait() returns once the
\* child has terminated and the final notification is queued
ReaderEnd(r) ==
  /\ readers[r].pc \in {"read", "wait"}
  /\ ~procs[readers[r].proc].alive
  /\ idle' = Append(idle, ExitCb(readers[r].proc))
  /\ readers' = [readers EXCEPT ![r].pc = "done", ![r].proc = 0]
  /\ emit' = NoEmit
  /\ UNCHANGED <<fields, configs, procs, nlines, nraw, pollers, handshakes, arg>>

(* ========================= _poll_status (thread) ========================= *)
Replace(bag, old, new) == (bag (-) SetToBag({old})) (+) SetToBag({new})

\* the test of the while loop
PollTest == state = "Connected" /\ ~stop_monitor

\* the poller wakes from time.sleep and tests the loop condition
PollCheck(p) ==
  /\ p.pc = "sleep"
  /\ pollers' = IF PollTest
                THEN Replace(pollers, p, [p EXCEPT !.pc = "query"])
                ELSE pollers (-) SetToBag({p})
  /\ emit' = NoEmit
  /\ UNCHANGED <<fields, configs, idle, procs, nlines, nraw, readers, handshakes, arg>>

\* the status query is answered and _parse_status runs in the poller thread
PollReply(p, data) ==
  /\ p.pc = "query"
  /\ LET c == ParseStatus(data, <<bytes_in, bytes_out>>)
     IN bytes_in' = c[1] /\ bytes_out' = c[2]
  /\ pollers' = Replace(pollers, p, [p EXCEPT !.pc = "sleep"])
  /\ emit' = NoEmit
  /\ UNCHANGED <<state, ovpn_process, connect_time, assigned_ip, stop_monitor,
                 configs, idle, procs, nlines, nraw, readers, handshakes, arg>>

\* the status query raises (refused, reset, timeout); the exception is swallowed
PollFail(p) ==
  /\ p.pc = "query"
  /\ pollers' = Replace(pollers, p, [p EXCEPT !.pc = "sleep"])
  /\ emit' = NoEmit
  /\ UNCHANGED <<fields, configs, idle, procs, nlines, nraw, readers, handshakes, arg>>

(* ====================== _send_mgmt_signal (thread) ======================= *)
\* the management interface took "signal SIGTERM": the endpoint is the fixed
\* MGMT_HOST:MGMT_PORT, served by a running child p, which terminates on the signal
SignalSent(h, p) ==
  /\ procs[p].alive
  /\ procs' = [procs EXCEPT ![p].alive = FALSE]
  /\ handshakes' = handshakes (-) SetToBag({h})
  /\ emit' = NoEmit
  /\ UNCHANGED <<fields, configs, idle, nlines, nraw, readers, pollers, arg>>

KillGuardNoPoll == ovpn_process # 0

\* self.ovpn_process and self.ovpn_process.poll() is None
KillGuard == ovpn_process # 0 /\ procs[ovpn_process].alive

\* the socket raised: pkexec kill of self.ovpn_process if it is still running;
\* the kill itself may fail
SignalFailed(h, killed) ==
  /\ procs' = IF KillGuard /\ killed
              THEN [procs EXCEPT ![ovpn_process].alive = FALSE]
              ELSE procs
  /\ handshakes' = handshakes (-) SetToBag({h})
  /\ emit' = Emit(<<>>, <<>>, IF KillGuard THEN <<"kill">> ELSE <<>>)
  /\ UNCHANGED <<fields, configs, idle, nlines, nraw, readers, pollers, arg>>

(* ============================== behaviour ================================ *)
Next ==
  \/ ClickConnect
  \/ ClickDisconnect
  \/ RunIdle
  \/ \E p \in 1..Len(procs) : ProcExit(p)
  \/ \E r \in 1..Len(readers) : ReaderStart(r)
  \/ \E r \in 1..Len(readers), line \in ProcLines : ReaderLine(r, line)
  \/ \E r \in 1..Len(readers) : ReaderSetIp(r)
  \/ \E r \in 1..Len(readers) : ReaderEnd(r)
  \/ \E p \in BagToSet(pollers) : PollCheck(p)
  \/ \E p \in BagToSet(pollers), data \in StatusReplies : PollReply(p, data)
  \/ \E p \in BagToSet(pollers) : PollFail(p)
  \/ \E h \in BagToSet(handshakes), p \in 1..Len(procs) : SignalSent(h, p)
  \/ \E h \in BagToSet(handshakes), killed \in BOOLEAN : SignalFailed(h, killed)

Spec == Init /\ [][Next]_vars

\* the GLib main loop runs every queued callback, and every started thread runs
\* on to its next blocking call; the clicks, the child's output and the child's
\* termination are up to the user and the child
Fairness ==
  /\ WF_vars(RunIdle)
  /\ WF_vars(\E r \in 1..Len(readers) : ReaderStart(r))
  /\ WF_vars(\E r \in 1..Len(readers) : ReaderSetIp(r))
  /\ WF_vars(\E r \in 1..Len(readers) : ReaderEnd(r))
  /\ WF_vars(\E p \in BagToSet(pollers) : PollCheck(p))
  /\ WF_vars(\E h \in BagToSet(handshakes) :
               \/ \E p \in 1..Len(procs) : SignalSent(h, p)
               \/ \E killed \in BOOLEAN : SignalFailed(h, killed))

SpecLive == Spec /\ Fairness

(* ============== the parsing routines run on their own ==================== *)
\* tokens a log line may be made of
TIfconfig == <<"ifconfig">>
TIfconfigUpper == <<"IFCONFIG">>
TSbinIfconfig == <<"/sbin/", "ifconfig">>
TTun0 == <<"tun", "0">>
TDev == <<"dev">>
TAddr == <<"1", "0", ".", "8", ".", "0", ".", "5">>
TAddr999 == <<"1", "0", ".", "8", ".", "0", ".", "9", "9", "9">>
TMask == <<"2", "5", "5", ".", "2", "5", "5", ".", "2", "5", "5", ".", "0">>
TThreeFields == <<"1", "0", ".", "8", ".", "5">>

LogTokens == {TIfconfig, TIfconfigUpper, TSbinIfconfig, TTun0, TDev, TAddr, TAddr999,
              TMask, TThreeFields}

\* lines of a status reply
SRead7 == <<"TCP/UDP read bytes", ",", "7">>
SRead12 == <<"TCP/UDP read bytes", ",", " ", "1", "2", ",", "3">>
SReadNeg == <<"TCP/UDP read bytes", ",", "-", "3">>
SReadAbc == <<"TCP/UDP read bytes", ",", "a", "b", "c">>
SReadEmpty == <<"TCP/UDP read bytes", ",">>
SReadNoComma == <<"TCP/UDP read bytes">>
SWrite9 == <<"TCP/UDP write bytes", ",", "9">>
SWriteBad == <<"TCP/UDP write bytes", ",", "9", "x">>
STitle == <<"OpenVPN STATISTICS">>

StatusLines == {SRead7, SRead12, SReadNeg, SReadAbc, SReadEmpty, SReadNoComma,
                SWrite9, SWriteBad, STitle}

RECURSIVE Join(_, _)
Join(pieces, sep) ==
  IF pieces = <<>> THEN <<>>
  ELSE IF Len(pieces) = 1 THEN pieces[1]
  ELSE pieces[1] \o <<sep>> \o Join(Tail(pieces), sep)

SeqsUpTo(S, n) == UNION {[1..k -> S] : k \in 0..n}

\* the line of the address example, and the same line with an out-of-range field
LExample == Join(<<TIfconfig, TTun0, TAddr, TMask>>, " ")
LExample999 == Join(<<TIfconfig, TAddr999, TTun0, TMask>>, " ")

FnLines == {Join(t, " ") : t \in SeqsUpTo(LogTokens, MaxTokens)} \cup {LExample, LExample999}

FnReplies == {Join(t, "\n") \o <<"\n">> : t \in SeqsUpTo(StatusLines, MaxTokens)}

\* counter values a reply may find
PrevCounters == {0, 5}

FnArgs ==
  [fn : {"capture"}, text : FnLines, done : {FALSE}, prev : {<<0, 0>>}]
  \cup [fn : {"parse_status"}, text : FnReplies, done : {FALSE},
        prev : PrevCounters \X PrevCounters]

\* a routine is about to run on arg.text; the counters hold arg.prev
InitFn ==
  /\ InitOther
  /\ configs = 1
  /\ arg \in FnArgs
  /\ bytes_in = arg.prev[1]
  /\ bytes_out = arg.prev[2]

\* the address capture of _read_openvpn_output runs on the line
ApplyCapture ==
  /\ arg.fn = "capture" /\ ~arg.done
  /\ assigned_ip' = CaptureIp(arg.text, assigned_ip)
  /\ arg' = [arg EXCEPT !.done = TRUE]
  /\ UNCHANGED <<state, ovpn_process, connect_time, bytes_in, bytes_out, stop_monitor,
                 configs, idle, procs, nlines, nraw, threads, emit>>

\* _parse_status runs on the reply
ApplyParseStatus ==
  /\ arg.fn = "parse_status" /\ ~arg.done
  /\ LET c == ParseStatus(arg.text, <<bytes_in, bytes_out>>)
     IN bytes_in' = c[1] /\ bytes_out' = c[2]
  /\ arg' = [arg EXCEPT !.done = TRUE]
  /\ UNCHANGED <<state, ovpn_process, connect_time, assigned_ip, stop_monitor,
                 configs, idle, procs, nlines, nraw, threads, emit>>

NextFn == ApplyCapture \/ ApplyParseStatus

SpecFn == InitFn /\ [][NextFn]_vars

(* =============================== claims ================================== *)
CredentialsGiven(user, passwd) == Strip(user) # <<>> /\ Strip(passwd) # <<>>

CountIn(q, x) == Cardinality({i \in 1..Len(q) : q[i] = x})

CountCb(q, c) == Cardinality({i \in 1..Len(q) : q[i].cb = c})

\* C1: a connect click acts only in state Disconnected with both credentials
\* non-empty, and then hands Connecting to _set_state exactly once; any other
\* click changes no field, queues nothing and starts or spawns nothing.
C1_ConnectGuard ==
  [][\A user \in EntryTexts, passwd \in EntryTexts, launch \in Launches :
       on_connect_clicked(user, passwd, launch) =>
         IF state = "Disconnected" /\ CredentialsGiven(user, passwd)
         THEN CountIn(emit'.trans, "Connecting") = 1
         ELSE /\ emit'.trans = <<>>
              /\ emit'.started = <<>>
              /\ UNCHANGED <<fields, idle, procs, threads>>]_vars

\* C2: a process-exit notification run while the state is Disconnected changes
\* no field, hands nothing to _set_state and logs nothing; run in any other
\* state it makes the one transition to Disconnected.  Of two notifications in
\* a row the first therefore makes one transition and the second none.
C2_ExitIdempotent ==
  [][(idle # <<>> /\ Head(idle).cb = "on_process_exit" /\ idle' = Tail(idle)) =>
       IF state = "Disconnected"
       THEN /\ UNCHANGED <<fields, procs, threads>>
            /\ emit' = NoEmit
       ELSE /\ emit'.trans = <<"Disconnected">>
            /\ state' = "Disconnected"]_vars

\* C2 witness: the first notification has taken the session down and the
\* second one is the next callback to run.
C2_Witness ==
  /\ state = "Disconnected"
  /\ emit.trans = <<"Disconnected">>
  /\ idle # <<>>
  /\ Head(idle).cb = "on_process_exit"

C4_ClearedWhenDisconnected ==
  state = "Disconnected" =>
    bytes_in = 0 /\ bytes_out = 0 /\ assigned_ip = None /\ connect_time = "None"

\* C5: a child process handle is owned exactly in the states Connecting,
\* Connected and Disconnecting.
C5_ProcessIffActive ==
  (ovpn_process # 0) <=> (state \in {"Connecting", "Connected", "Disconnecting"})

\* C6: a disconnect click in state Connecting or Connected moves to
\* Disconnecting and starts exactly one handshake thread; in any other state it
\* changes nothing; and no other step ever starts a handshake thread.
C6_DisconnectGuard ==
  [][/\ on_disconnect_clicked =>
          IF state \in {"Connecting", "Connected"}
          THEN /\ state' = "Disconnecting"
               /\ emit'.trans = <<"Disconnecting">>
               /\ BagCardinality(handshakes') = BagCardinality(handshakes) + 1
          ELSE /\ UNCHANGED <<fields, idle, procs, threads>>
               /\ emit' = NoEmit
     /\ BagCardinality(handshakes') > BagCardinality(handshakes) =>
          /\ state \in {"Connecting", "Connected"}
          /\ state' = "Disconnecting"
          /\ BagCardinality(handshakes') = BagCardinality(handshakes) + 1]_vars

\* C6 witness: an accepted disconnect has just started its handshake.
C6_Witness ==
  /\ state = "Disconnecting"
  /\ emit.started = <<"handshake">>
  /\ BagCardinality(handshakes) >= 1

\* C7: a poller that wakes after the state has left Connected, or after a later
\* session has been started, issues no query and terminates.
C7_NoOrphanPolling ==
  [][\A p \in BagToSet(pollers) :
       (PollCheck(p) /\ (state # "Connected" \/ p.sess # Len(procs))) =>
         pollers' = pollers (-) SetToBag({p})]_vars

\* C8: the example line ifconfig tun0 10.8.0.5 255.255.255.0 yields the address
\* 10.8.0.5, and a line whose token after ifconfig is 10.8.0.999 yields none.
C8_AddressExample ==
  (arg.fn = "capture" /\ arg.done) =>
    /\ arg.text = LExample => assigned_ip = TAddr
    /\ arg.text = LExample999 => assigned_ip = None

\* the positions of the lines of a reply that carry a numeric field after prefix
NumericAt(lines, prefix) ==
  {i \in 1..Len(lines) :
     /\ StartsWith(lines[i], prefix)
     /\ LET f == Strip(SplitOn(lines[i], ",")[2])
            d == IF f # <<>> /\ f[1] \in {"+", "-"} THEN Tail(f) ELSE f
        IN d # <<>> /\ \A k \in 1..Len(d) : IsDigitAtom(d[k])}

Last(S) == CHOOSE i \in S : \A j \in S : j <= i

SignedVal(f) ==
  LET g == Strip(f)
  IN IF g[1] = "-" THEN 0 - DecVal(Tail(g))
     ELSE IF g[1] = "+" THEN DecVal(Tail(g)) ELSE DecVal(g)

ExpectedCounter(lines, prefix, prev) ==
  IF NumericAt(lines, prefix) = {} THEN prev
  ELSE SignedVal(SplitOn(lines[Last(NumericAt(lines, prefix))], ",")[2])

\* C9: after _parse_status, bytes_in is the second field of the last line that
\* begins with the read prefix and has a numeric field there, and the previous
\* value when there is no such line; bytes_out likewise for the write prefix.
C9_StatusParsing ==
  (arg.fn = "parse_status" /\ arg.done) =>
    LET lines == SplitLines(arg.text)
    IN /\ bytes_in = ExpectedCounter(lines, ReadPrefix, arg.prev[1])
       /\ bytes_out = ExpectedCounter(lines, WritePrefix, arg.prev[2])

\* C9 witness: a reply with a malformed read line and a good write line has
\* been parsed; the read counter kept its previous value.
C9_Witness ==
  /\ arg.fn = "parse_status" /\ arg.done
  /\ arg.text = Join(<<SReadAbc, SWrite9>>, "\n") \o <<"\n">>
  /\ arg.prev = <<5, 5>>
  /\ bytes_in = 5 /\ bytes_out = 9

\* the lines the child may print that hold the marker
InitLines == {l \in ProcLines : Contains(l, InitMarker)}

C11_SetOnlyWhenActive ==
  state \in {"Connecting", "Disconnected"} =>
    assigned_ip = None /\ bytes_in = 0 /\ bytes_out = 0

\* the transitions of the state diagram
ListedTransitions ==
  {<<"Disconnected", "Connecting">>, <<"Connecting", "Connected">>,
   <<"Connecting", "Disconnecting">>, <<"Connected", "Disconnecting">>}
  \cup {<<s, "Disconnected">> : s \in {"Connecting", "Connected", "Disconnecting"}}

\* C12: every change of state, and every change a step hands to _set_state on
\* the way, is a listed transition; and a call of _on_connected run in a state
\* other than Connecting leaves the state, the start time and the pollers alone.
C12_ListedTransitions ==
  [][/\ state' # state => <<state, state'>> \in ListedTransitions
     /\ LET chain == <<state>> \o emit'.trans
        IN \A i \in 1..(Len(chain) - 1) :
             chain[i] # chain[i + 1] => <<chain[i], chain[i + 1]>> \in ListedTransitions
     /\ (idle # <<>> /\ Head(idle).cb = "on_connected" /\ idle' = Tail(idle)
           /\ state # "Connecting") =>
          /\ state' = state
          /\ connect_time' = connect_time
          /\ pollers' = pollers]_vars

\* C13: a handshake whose signal was taken issues no kill; a handshake whose
\* attempt failed issues the kill exactly when a process is owned and still
\* running, and the kill can end that process only; nothing but a failed
\* handshake issues a kill; and the accepted click returns with the handshake
\* still to run, having touched no process.
C13_GracefulThenKill ==
  [][/\ \A h \in BagToSet(handshakes), p \in 1..Len(procs) :
          SignalSent(h, p) => emit'.started = <<>>
     /\ \A h \in BagToSet(handshakes), killed \in BOOLEAN :
          SignalFailed(h, killed) =>
            /\ (emit'.started = <<"kill">>) <=>
                 (ovpn_process # 0 /\ procs[ovpn_process].alive)
            /\ procs' # procs =>
                 /\ emit'.started = <<"kill">>
                 /\ procs' = [procs EXCEPT ![ovpn_process].alive = FALSE]
     /\ CountIn(emit'.started, "kill") > 0 =>
          BagCardinality(handshakes') = BagCardinality(handshakes) - 1
     /\ (on_disconnect_clicked /\ state \in {"Connecting", "Connected"}) =>
          /\ procs' = procs
          /\ CountIn(emit'.started, "kill") = 0
          /\ BagIn(NewHandshake, handshakes')]_vars

\* C13 witness: the signal failed and the fallback has killed the owned process.
C13_Witness ==
  /\ state = "Disconnecting"
  /\ emit.started = <<"kill">>
  /\ ovpn_process # 0
  /\ ~procs[ovpn_process].alive

\* C14: under fairness of the main loop and the threads, the state Disconnecting
\* always leads to the state Disconnected.
C14_DisconnectCompletes == (state = "Disconnecting") ~> (state = "Disconnected")

\* the lines the child may print that hold AUTH_FAILED
AuthLines == {l \in ProcLines : Contains(l, <<"AUTH_FAILED">>)}

\* C15: every line holding AUTH_FAILED that the reader takes from the pipe queues
\* the report of the failed authentication, once, whatever else the line holds,
\* and queues it ahead of the exit notification, so that the main loop shows
\* the report before it tears the session down.
C15_AuthReported ==
  [][\A r \in 1..Len(readers), line \in AuthLines :
       ReaderLine(r, line) =>
         idle' = idle \o <<Cb("log", "auth"), ExitCb(readers[r].proc)>>]_vars

\* C16: every line read from a pipe has been handed to the log, once.
C16_EveryLineForwarded == nraw = nlines

\* C17: an exit notification that tears a session down was queued by a reader
\* of the process spawned for that session, the latest one.
C17_OwnSessionTeardown ==
  [][(idle # <<>> /\ Head(idle).cb = "on_process_exit" /\ idle' = Tail(idle)
        /\ state # "Disconnected") =>
       Head(idle).src = Len(procs)]_vars

\* C18: at most one status poller is alive.
C18_OnePoller == BagCardinality(pollers) <= 1

\* C19: a handshake signals, and kills, only the process of the session whose
\* disconnect started it.  A session in state Connecting has accepted no
\* disconnect yet, so every handshake in flight then was started for an earlier
\* session: none of them signals or kills the process spawned for this one.
C19_HandshakeOwnSession ==
  [][state = "Connecting" =>
       \A h \in BagToSet(handshakes) :
         /\ \A p \in 1..Len(procs) : SignalSent(h, p) => p # Len(procs)
         /\ \A killed \in BOOLEAN :
              SignalFailed(h, killed) => procs'[Len(procs)] = procs[Len(procs)]]_vars

\* the spawned processes still running
Running == {p \in 1..Len(procs) : procs[p].alive}

\* C20: in state Disconnected no spawned process is running, and never more
\* than one spawned process is running.
C20_NoProcessWhenDisconnected ==
  /\ state = "Disconnected" => Running = {}
  /\ Cardinality(Running) <= 1

====
